---------------------------- MODULE Spec2Model ----------------------------
(***************************************************************************)
(* A model of the Polynomial class of src/polynomial.py and of the error   *)
(* taxonomy of src/exceptions.py.                                          *)
(*                                                                         *)
(* Python values are records [type, val].  An int is [type |-> "int",      *)
(* val |-> n].  A float is [type |-> "float", val |-> d] where d is the    *)
(* binary64 value as a dyadic number [neg, m, e]: (-1)^neg * m * 2^e with  *)
(* m a natural number written as a sequence of limbs in base 2^15, least   *)
(* significant limb first, and m odd (or empty for zero).  Float arithmetic *)
(* is exact dyadic arithmetic followed by rounding to 53 significant bits, *)
(* ties to even, which is what binary64 does while no exponent leaves the  *)
(* normal range.  Strings are sequences of one-character strings.          *)
(*                                                                         *)
(* A call returns [kind |-> "return", val |-> v] or raises                 *)
(* [kind |-> "raise", exc |-> name, args |-> arguments].                   *)
(*                                                                         *)
(* Four specifications share the state of a client holding a Polynomial P: *)
(* Spec (the algebra), SpecParse (from_string and str), SpecRing (the      *)
(* distributive law) and SpecCalculus (integral and derivative).           *)
(***************************************************************************)
EXTENDS Integers, Sequences, FiniteSets, TLC

\* The width of a binary64 significand: the float of Scalar.
MantissaBits == 53

(***************************************************************************)
(* Natural numbers as sequences of limbs in base 2^15, least significant   *)
(* limb first, with no leading zero limb (0 is the empty sequence).        *)
(***************************************************************************)
Base == 2^15

RECURSIVE LTrim(_)
LTrim(a) == IF a = <<>> THEN <<>>
            ELSE IF a[Len(a)] = 0 THEN LTrim(SubSeq(a, 1, Len(a) - 1))
            ELSE a

RECURSIVE LFromNat(_)
LFromNat(n) == IF n = 0 THEN <<>> ELSE <<n % Base>> \o LFromNat(n \div Base)

RECURSIVE LAddC(_, _, _)
LAddC(a, b, c) ==
    IF a = <<>> /\ b = <<>> THEN (IF c = 0 THEN <<>> ELSE <<c>>)
    ELSE LET x == IF a = <<>> THEN 0 ELSE a[1]
             y == IF b = <<>> THEN 0 ELSE b[1]
             s == x + y + c
         IN  <<s % Base>> \o LAddC(IF a = <<>> THEN <<>> ELSE Tail(a),
                                   IF b = <<>> THEN <<>> ELSE Tail(b), s \div Base)

LAdd(a, b) == LAddC(a, b, 0)

\* a - b - c for a >= b + c
RECURSIVE LSubC(_, _, _)
LSubC(a, b, c) ==
    IF a = <<>> THEN <<>>
    ELSE LET y == IF b = <<>> THEN 0 ELSE b[1]
             s == a[1] - y - c
         IN  <<s % Base>> \o LSubC(Tail(a), IF b = <<>> THEN <<>> ELSE Tail(b),
                                   IF s < 0 THEN 1 ELSE 0)

LSub(a, b) == LTrim(LSubC(a, b, 0))

RECURSIVE LLessSameLen(_, _)
LLessSameLen(a, b) ==
    IF a = <<>> THEN FALSE
    ELSE IF a[Len(a)] # b[Len(b)] THEN a[Len(a)] < b[Len(b)]
    ELSE LLessSameLen(SubSeq(a, 1, Len(a) - 1), SubSeq(b, 1, Len(b) - 1))

LLess(a, b) == IF Len(a) # Len(b) THEN Len(a) < Len(b) ELSE LLessSameLen(a, b)

\* a * x + c for a limb x
RECURSIVE LMulLimbC(_, _, _)
LMulLimbC(a, x, c) ==
    IF a = <<>> THEN (IF c = 0 THEN <<>> ELSE <<c>>)
    ELSE LET p == a[1] * x + c
         IN  <<p % Base>> \o LMulLimbC(Tail(a), x, p \div Base)

LMulLimb(a, x) == LTrim(LMulLimbC(a, x, 0))

\* a * Base^j
LShlLimbs(a, j) == IF a = <<>> THEN <<>> ELSE [i \in 1..j |-> 0] \o a

RECURSIVE LMul(_, _)
LMul(a, b) ==
    IF a = <<>> \/ b = <<>> THEN <<>>
    ELSE LAdd(LMulLimb(b, a[1]), LShlLimbs(LMul(Tail(a), b), 1))

\* Division of a by a limb d # 0, from the most significant limb down:
\* <<quotient (untrimmed), remainder>>.
RECURSIVE LDivLimbR(_, _)
LDivLimbR(a, d) ==
    IF a = <<>> THEN << <<>>, 0 >>
    ELSE LET hi  == LDivLimbR(Tail(a), d)
             cur == hi[2] * Base + a[1]
         IN  << <<cur \div d>> \o hi[1], cur % d >>

LDivLimb(a, d) == LET qr == LDivLimbR(a, d) IN << LTrim(qr[1]), qr[2] >>

\* the largest limb q in lo..hi with b * q <= cur, by bisection
RECURSIVE QuotientLimb(_, _, _, _)
QuotientLimb(cur, b, lo, hi) ==
    IF lo = hi THEN lo
    ELSE LET mid == (lo + hi + 1) \div 2
         IN  IF LLess(cur, LMulLimb(b, mid)) THEN QuotientLimb(cur, b, lo, mid - 1)
             ELSE QuotientLimb(cur, b, mid, hi)

\* Long division of a by b # 0 in base 2^15:
\* <<quotient (untrimmed), remainder>>.
RECURSIVE LDivModR(_, _)
LDivModR(a, b) ==
    IF a = <<>> THEN << <<>>, <<>> >>
    ELSE LET hi  == LDivModR(Tail(a), b)
             cur == LTrim(<<a[1]>> \o hi[2])
             q   == QuotientLimb(cur, b, 0, Base - 1)
         IN  << <<q>> \o hi[1], LSub(cur, LMulLimb(b, q)) >>

LDivMod(a, b) == LET qr == LDivModR(a, b) IN << LTrim(qr[1]), qr[2] >>

\* a * 2^k and floor(a / 2^k)
LShl(a, k) == LShlLimbs(LMulLimb(a, 2^(k % 15)), k \div 15)

LShr(a, k) ==
    LET j == k \div 15
    IN  IF j >= Len(a) THEN <<>>
        ELSE LDivLimb(SubSeq(a, j + 1, Len(a)), 2^(k % 15))[1]

\* bit i (bit 0 is the least significant) of a
LBit(a, i) == IF i \div 15 >= Len(a) THEN 0
              ELSE (a[i \div 15 + 1] \div 2^(i % 15)) % 2

RECURSIVE BitLen(_)
BitLen(n) == IF n = 0 THEN 0 ELSE 1 + BitLen(n \div 2)

LBitLen(a) == IF a = <<>> THEN 0 ELSE 15 * (Len(a) - 1) + BitLen(a[Len(a)])

\* the number of trailing zero bits of a # 0
RECURSIVE TrailingZeros(_)
TrailingZeros(n) == IF n % 2 = 1 THEN 0 ELSE 1 + TrailingZeros(n \div 2)

RECURSIVE LTrailingZeros(_)
LTrailingZeros(a) == IF a[1] # 0 THEN TrailingZeros(a[1])
                     ELSE 15 + LTrailingZeros(Tail(a))

(***************************************************************************)
(* Dyadic numbers and binary64 rounding.                                   *)
(***************************************************************************)
DZero == [neg |-> FALSE, m |-> <<>>, e |-> 0]

\* the dyadic number (-1)^neg * m * 2^e with its significand made odd
DNorm(neg, m, e) ==
    IF m = <<>> THEN DZero
    ELSE LET tz == LTrailingZeros(m)
         IN  [neg |-> neg, m |-> LShr(m, tz), e |-> e + tz]

DFromInt(n) == IF n < 0 THEN DNorm(TRUE, LFromNat(-n), 0)
               ELSE DNorm(FALSE, LFromNat(n), 0)

DNeg(a) == IF a.m = <<>> THEN a ELSE [a EXCEPT !.neg = ~a.neg]

DMul(a, b) == DNorm(a.neg # b.neg, LMul(a.m, b.m), a.e + b.e)

DAdd(a, b) ==
    LET lo == IF a.e < b.e THEN a.e ELSE b.e
        ma == LShl(a.m, a.e - lo)
        mb == LShl(b.m, b.e - lo)
    IN  IF a.m = <<>> THEN b
        ELSE IF b.m = <<>> THEN a
        ELSE IF a.neg = b.neg THEN DNorm(a.neg, LAdd(ma, mb), lo)
        ELSE IF LLess(ma, mb) THEN DNorm(b.neg, LSub(mb, ma), lo)
        ELSE DNorm(a.neg, LSub(ma, mb), lo)

\* Round a dyadic number (m odd) to MantissaBits significant bits, ties to even.
Round53(d) ==
    IF LBitLen(d.m) <= MantissaBits THEN d
    ELSE LET k      == LBitLen(d.m) - MantissaBits
             keep   == LShr(d.m, k)
             guard  == LBit(d.m, k - 1)
             sticky == k >= 2      \* bit 0 of d.m is 1 and lies below the guard bit
             up     == guard = 1 /\ (sticky \/ LBit(keep, 0) = 1)
         IN  DNorm(d.neg, IF up THEN LAdd(keep, <<1>>) ELSE keep, d.e + k)

\* The correctly rounded quotient a / b of two dyadic numbers, b # 0.  With a
\* remainder the quotient gets a sticky bit: it has at least MantissaBits + 2
\* bits, so this rounds as the exact value.
DDiv(a, b) ==
    IF a.m = <<>> THEN DZero
    ELSE LET need == MantissaBits + 2 + LBitLen(b.m) - LBitLen(a.m)
             s    == IF need > 0 THEN need ELSE 0
             qr   == LDivMod(LShl(a.m, s), b.m)
             q    == IF qr[2] = <<>> THEN qr[1] ELSE LAdd(LShl(qr[1], 1), <<1>>)
             e    == IF qr[2] = <<>> THEN a.e - b.e - s ELSE a.e - b.e - s - 1
         IN  Round53(DNorm(a.neg # b.neg, q, e))

(***************************************************************************)
(* Python numbers.                                                         *)
(***************************************************************************)
PyInt(n) == [type |-> "int", val |-> n]
PyFloatOf(d) == [type |-> "float", val |-> d]

ToD(x) == IF x.type = "int" THEN DFromInt(x.val) ELSE x.val

\* float(x) for a number x
ToFloat(x) == PyFloatOf(Round53(ToD(x)))

NumAdd(a, b) == IF a.type = "int" /\ b.type = "int" THEN PyInt(a.val + b.val)
                ELSE PyFloatOf(Round53(DAdd(ToD(a), ToD(b))))

NumMul(a, b) == IF a.type = "int" /\ b.type = "int" THEN PyInt(a.val * b.val)
                ELSE PyFloatOf(Round53(DMul(ToD(a), ToD(b))))

NumNeg(a) == IF a.type = "int" THEN PyInt(-a.val) ELSE PyFloatOf(DNeg(a.val))

NumAbs(a) == IF a.type = "int" THEN PyInt(IF a.val < 0 THEN -a.val ELSE a.val)
             ELSE PyFloatOf([a.val EXCEPT !.neg = FALSE])

\* a / b for b # 0: always a float
NumTrueDiv(a, b) == PyFloatOf(DDiv(ToD(a), ToD(b)))

NumEq(a, b) == ToD(a) = ToD(b)

NumIsZero(a) == ToD(a).m = <<>>

NumGeZero(a) == ~ToD(a).neg

(***************************************************************************)
(* Python values, calls and exceptions.                                    *)
(***************************************************************************)
PyStr(chars) == [type |-> "str", val |-> chars]
PyNone == [type |-> "NoneType", val |-> <<>>]
PyTuple(items) == [type |-> "tuple", val |-> items]
PyList(items) == [type |-> "list", val |-> items]

\* A call returns a value or raises an exception.
Return(v) == [kind |-> "return", val |-> v]
Raise(exc, args) == [kind |-> "raise", exc |-> exc, args |-> args]

IsPolynomial(v) == v.type = "Polynomial"

\* PolynomialParseError(term): the exception carries the term
PolynomialParseError(term) == Raise("PolynomialParseError", <<term>>)

\* PolynomialTypeError(op, obj): the message names op and type(obj).__name__
PolynomialTypeError(op, obj) == Raise("PolynomialTypeError", <<op, obj.type>>)

\* PolynomialDomainError(msg)
PolynomialDomainError(msg) == Raise("PolynomialDomainError", <<msg>>)

\* The exceptions deriving from PolynomialError.
PolynomialError == {"PolynomialParseError", "PolynomialTypeError", "PolynomialDomainError"}

\* a + b for two Python sequences: tuple + tuple and list + list concatenate,
\* a tuple and a list raise TypeError.
SeqConcat(a, b) ==
    IF a.type = b.type THEN Return([type |-> a.type, val |-> a.val \o b.val])
    ELSE Raise("TypeError", <<"concatenate", b.type>>)

(***************************************************************************)
(* Polynomial: construction.                                               *)
(***************************************************************************)
_is_numeric(x) == x.type \in {"int", "float"}

_is_valid_coefficients(coefficients) ==
    \A i \in 1..Len(coefficients.val) : _is_numeric(coefficients.val[i])

\* x == 0 for any Python value x
EqualsZero(x) == _is_numeric(x) /\ NumIsZero(x)

\* Drops the zero coefficients of the highest degrees, keeping one coefficient;
\* no coefficient at all is the zero polynomial.
RECURSIVE _strip_leading_zeros(_)
_strip_leading_zeros(args) ==
    IF args = <<>> THEN <<PyInt(0)>>
    ELSE IF Len(args) > 1 /\ EqualsZero(args[Len(args)])
         THEN _strip_leading_zeros(SubSeq(args, 1, Len(args) - 1))
    ELSE args

\* The stored coefficients are an immutable sequence: a tuple.
_clean(coefficients) == PyTuple(coefficients)

Polynomial(coefficients, var) ==
    [type |-> "Polynomial", coefficients |-> coefficients, var |-> var]

\* The default of the keyword var.
DefaultVar == <<"x">>

\* Polynomial(*args, var=var)
\* __init__ without the call of _strip_leading_zeros
InitKeepsZeros(args, var) ==
    LET coefficients == _clean(args)
    IN  IF ~_is_valid_coefficients(coefficients)
        THEN Raise("ValueError", <<"Polynomial coefficients must be real numbers">>)
        ELSE Return(Polynomial(coefficients, var))

__init__(args, var) ==
    LET coefficients == _clean(_strip_leading_zeros(args))
    IN  IF ~_is_valid_coefficients(coefficients)
        THEN Raise("ValueError", <<"Polynomial coefficients must be real numbers">>)
        ELSE Return(Polynomial(coefficients, var))

\* len(self) and self.degree
__len__(self) == Len(self.coefficients.val)
degree(self) == __len__(self) - 1

(***************************************************************************)
(* Polynomial: comparison and arithmetic.                                  *)
(***************************************************************************)
\* tuple == tuple: the same length and equal items
TupleEq(a, b) ==
    /\ Len(a.val) = Len(b.val)
    /\ \A i \in 1..Len(a.val) : NumEq(a.val[i], b.val[i])

__eq__(self, other) ==
    IF _is_numeric(other) THEN NumEq(self.coefficients.val[1], other)
    ELSE IF IsPolynomial(other) THEN TupleEq(self.coefficients, other.coefficients)
    ELSE FALSE

__add__(self, other) ==
    IF _is_numeric(other)
    THEN __init__(<<NumAdd(self.coefficients.val[1], other)>> \o Tail(self.coefficients.val),
                  DefaultVar)
    ELSE IF IsPolynomial(other)
    THEN LET shorter == IF __len__(other) < __len__(self) THEN other ELSE self
             longer  == IF __len__(other) < __len__(self) THEN self ELSE other
             diff    == __len__(longer) - __len__(shorter)
             shorter_coefficients ==
                 SeqConcat(shorter.coefficients, PyList([i \in 1..diff |-> PyInt(0)]))
         IN  IF shorter_coefficients.kind = "raise" THEN shorter_coefficients
             ELSE LET zipped == IF Len(shorter_coefficients.val.val) < __len__(longer)
                                THEN Len(shorter_coefficients.val.val) ELSE __len__(longer)
                  IN  __init__([i \in 1..zipped |->
                                   NumAdd(shorter_coefficients.val.val[i],
                                          longer.coefficients.val[i])],
                               self.var)
    ELSE PolynomialTypeError("add", other)

__radd__(self, other) == __add__(self, other)

__neg__(self) ==
    __init__([i \in 1..__len__(self) |-> NumNeg(self.coefficients.val[i])], self.var)

\* -other for any Python value
Negative(other) ==
    IF _is_numeric(other) THEN Return(NumNeg(other))
    ELSE IF IsPolynomial(other) THEN __neg__(other)
    ELSE Raise("TypeError", <<"unary -", other.type>>)

__sub__(self, other) ==
    LET negated == Negative(other)
    IN  IF negated.kind = "raise" THEN negated ELSE __add__(self, negated.val)

\* new_coefficients at position k (counted from 1) after the rounds 1..i of the
\* outer loop: the products a[i] * b[j] with (i - 1) + (j - 1) = k - 1, added to
\* the initial 0 in the order of i
RECURSIVE Accumulate(_, _, _, _)
Accumulate(a, b, k, i) ==
    IF i = 0 THEN PyInt(0)
    ELSE IF k - i + 1 >= 1 /\ k - i + 1 <= Len(b)
         THEN NumAdd(Accumulate(a, b, k, i - 1), NumMul(a[i], b[k - i + 1]))
    ELSE Accumulate(a, b, k, i - 1)

__mul__(self, other) ==
    IF _is_numeric(other)
    THEN __init__([i \in 1..__len__(self) |-> NumMul(self.coefficients.val[i], other)],
                  self.var)
    ELSE IF IsPolynomial(other)
    THEN __init__([k \in 1..(__len__(self) + __len__(other) - 1) |->
                      Accumulate(self.coefficients.val, other.coefficients.val,
                                 k, __len__(self))],
                  self.var)
    ELSE PolynomialTypeError("multiply", other)

__rmul__(self, other) == __mul__(self, other)

__truediv__(self, other) ==
    IF _is_numeric(other)
    THEN IF NumIsZero(other) THEN Raise("ZeroDivisionError", <<"division by zero">>)
         ELSE __init__([i \in 1..__len__(self) |->
                           NumTrueDiv(self.coefficients.val[i], other)], self.var)
    ELSE PolynomialTypeError("divide", other)

\* result after k rounds of result *= self
RECURSIVE Power(_, _, _)
Power(result, self, k) ==
    IF k = 0 \/ result.kind = "raise" THEN result
    ELSE Power(__mul__(result.val, self), self, k - 1)

\* __pow__ without the test n < 0: range(n) is empty for a negative n
PowOfAnyInt(self, n) ==
    IF n.type # "int"
    THEN PolynomialDomainError("Cannot raise polynomial to negative power")
    ELSE Power(__init__(<<PyInt(1)>>, self.var), self, IF n.val < 0 THEN 0 ELSE n.val)

__pow__(self, n) ==
    IF n.type # "int" \/ n.val < 0
    THEN PolynomialDomainError("Cannot raise polynomial to negative power")
    ELSE Power(__init__(<<PyInt(1)>>, self.var), self, n.val)

copy(self) == __init__(self.coefficients.val, self.var)

(***************************************************************************)
(* Polynomial: calculus, composition, roots.                               *)
(***************************************************************************)
\* derivative without the factor i
DerivativeUnscaled(self) ==
    IF Len(self.coefficients.val) = 1 THEN __init__(<<PyInt(0)>>, DefaultVar)
    ELSE __init__([i \in 1..(__len__(self) - 1) |-> self.coefficients.val[i + 1]],
                  self.var)

derivative(self) ==
    IF Len(self.coefficients.val) = 1 THEN __init__(<<PyInt(0)>>, DefaultVar)
    ELSE __init__([i \in 1..(__len__(self) - 1) |->
                      NumMul(PyInt(i), self.coefficients.val[i + 1])], self.var)

integral(self, constant) ==
    __init__(<<constant>> \o [i \in 1..Len(self.coefficients.val) |->
                                 NumTrueDiv(self.coefficients.val[i], PyInt(i))],
             self.var)

\* result after the rounds i = from .. len(self) - 1 of
\* result += self.coefficients[i] * other**i
RECURSIVE ComposeLoop(_, _, _, _)
ComposeLoop(result, self, other, from) ==
    IF from > __len__(self) - 1 \/ result.kind = "raise" THEN result
    ELSE LET power == __pow__(other, PyInt(from))
             term  == IF power.kind = "raise" THEN power
                      ELSE __rmul__(power.val, self.coefficients.val[from + 1])
             next  == IF term.kind = "raise" THEN term
                      ELSE __add__(result.val, term.val)
         IN  ComposeLoop(next, self, other, from + 1)

compose(self, other) ==
    IF ~IsPolynomial(other) THEN PolynomialTypeError("compose", other)
    ELSE ComposeLoop(__init__(<<PyInt(0)>>, self.var), self, other, 0)

\* result after result *= Polynomial(-root, 1, var=var) for each root
RECURSIVE RootsLoop(_, _, _)
RootsLoop(result, roots, var) ==
    IF roots = <<>> \/ result.kind = "raise" THEN result
    ELSE LET factor == __init__(<<NumNeg(Head(roots)), PyInt(1)>>, var)
         IN  RootsLoop(__mul__(result.val, factor.val), Tail(roots), var)

from_roots(roots, var) == RootsLoop(__init__(<<PyInt(1)>>, var), roots, var)


(***************************************************************************)
(* Strings: sequences of one-character strings.                            *)
(***************************************************************************)
StartsWith(s, prefix) ==
    Len(s) >= Len(prefix) /\ SubSeq(s, 1, Len(prefix)) = prefix

\* s.replace(old, new) for a non-empty old
RECURSIVE Replace(_, _, _)
Replace(s, old, new) ==
    IF s = <<>> THEN <<>>
    ELSE IF StartsWith(s, old)
         THEN new \o Replace(SubSeq(s, Len(old) + 1, Len(s)), old, new)
    ELSE <<Head(s)>> \o Replace(Tail(s), old, new)

\* s.split(sep) for a non-empty sep: the list of the pieces
RECURSIVE Split(_, _)
Split(s, sep) ==
    IF s = <<>> THEN << <<>> >>
    ELSE IF StartsWith(s, sep)
         THEN << <<>> >> \o Split(SubSeq(s, Len(sep) + 1, Len(s)), sep)
    ELSE LET rest == Split(Tail(s), sep)
         IN  << <<Head(s)>> \o Head(rest) >> \o Tail(rest)

Digits == <<"0", "1", "2", "3", "4", "5", "6", "7", "8", "9">>

IsDigit(c) == \E d \in 1..10 : Digits[d] = c

DigitValue(c) == (CHOOSE d \in 1..10 : Digits[d] = c) - 1

\* the number a non-empty sequence of digits writes
RECURSIVE DigitsValue(_)
DigitsValue(s) ==
    IF s = <<>> THEN 0
    ELSE 10 * DigitsValue(SubSeq(s, 1, Len(s) - 1)) + DigitValue(s[Len(s)])

\* str(n) for an int n >= 0
RECURSIVE NatStr(_)
NatStr(n) == IF n < 10 THEN <<Digits[n + 1]>>
             ELSE NatStr(n \div 10) \o <<Digits[(n % 10) + 1]>>

\* An optional sign and at least one digit: the form of a number that int() and
\* float() accept over the characters of Alphabet.
IsSignedDigits(s) ==
    LET body == IF s # <<>> /\ s[1] \in {"-", "+"} THEN Tail(s) ELSE s
    IN  body # <<>> /\ \A i \in 1..Len(body) : IsDigit(body[i])

SignedDigitsValue(s) ==
    IF s[1] = "-" THEN -DigitsValue(Tail(s))
    ELSE IF s[1] = "+" THEN DigitsValue(Tail(s))
    ELSE DigitsValue(s)

\* float(x): x is a string, or the int that _is_valid_term puts in check[0]
Float(x) ==
    IF x.type = "int" THEN Return(ToFloat(x))
    ELSE IF IsSignedDigits(x.val) THEN Return(ToFloat(PyInt(SignedDigitsValue(x.val))))
    ELSE Raise("ValueError", <<"could not convert string to float">>)

\* int(s) for a string s
Int_(s) ==
    IF IsSignedDigits(s) THEN Return(PyInt(SignedDigitsValue(s)))
    ELSE Raise("ValueError", <<"invalid literal for int()">>)

(***************************************************************************)
(* Polynomial: rendering.                                                  *)
(***************************************************************************)
\* str(x) for x = abs(coefficient): an int, or a float with an integer value
\* (the repr of another float is not modelled: __str__ is applied to no such
\* polynomial)
NumStr(x) ==
    CASE x.type = "int" -> NatStr(x.val)
      [] x.type = "float" /\ x.val.e >= 0 /\ Len(x.val.m) <= 1 ->
             NatStr((IF x.val.m = <<>> THEN 0 ELSE x.val.m[1]) * 2^x.val.e) \o <<".", "0">>

\* result after the rounds i .. len - 1 of the loop (i counted from 0)
RECURSIVE StrLoop(_, _, _, _)
StrLoop(self, i, result, nonzero_found) ==
    IF i > Len(self.coefficients.val) - 1 THEN result
    ELSE LET c == self.coefficients.val[i + 1]
             plus == IF ~nonzero_found THEN (IF NumGeZero(c) THEN <<>> ELSE <<"-">>)
                     ELSE IF NumGeZero(c) THEN <<" ", "+", " ">>
                     ELSE <<" ", "-", " ">>
             coefficient == IF ~NumEq(NumAbs(c), PyInt(1)) \/ i = 0
                            THEN NumStr(NumAbs(c)) ELSE <<>>
         IN  IF NumIsZero(c) THEN StrLoop(self, i + 1, result, nonzero_found)
             ELSE IF i = 0
                  THEN StrLoop(self, i + 1, result \o plus \o coefficient, TRUE)
             ELSE IF i = 1
                  THEN StrLoop(self, i + 1, result \o plus \o coefficient \o self.var, TRUE)
             ELSE StrLoop(self, i + 1,
                          result \o plus \o coefficient \o self.var \o <<"^">> \o NatStr(i),
                          TRUE)

__str__(self) ==
    LET result == StrLoop(self, 0, <<>>, FALSE)
    IN  IF result = <<>> THEN <<"0">> ELSE result

(***************************************************************************)
(* Polynomial: parsing.                                                    *)
(***************************************************************************)
\* The value _is_valid_term returns: False, or the pair (coefficient, exponent).
Invalid == [valid |-> FALSE]
Pair(coefficient, exponent) ==
    [valid |-> TRUE, coefficient |-> coefficient, exponent |-> exponent]

\* The try block of a term without "^": the pair it returns, or Invalid when it
\* raises (term[0] of an empty term, float of a non-number) and the except passes.
TermWithoutPower(term) ==
    IF term = <<>> THEN Invalid
    ELSE LET sign == IF term[1] = "-" THEN -1 ELSE 1
             rest == IF term[1] = "-" THEN Tail(term) ELSE term
             coefficient == Float(PyStr(SubSeq(rest, 1, Len(rest) - 1)))
         IN  IF term[1] = "-" /\ Len(rest) = 1 THEN Pair(PyInt(-1), 1)
             ELSE IF coefficient.kind = "raise" THEN Invalid
             ELSE Pair(NumMul(PyInt(sign), coefficient.val), 1)

_is_valid_term(term, var) ==
    LET single == Float(PyStr(term))
        split  == Split(term, var \o <<"^">>)
        check0 == IF split[1] = <<>> THEN PyInt(1)
                  ELSE IF split[1] = <<"-">> THEN PyInt(-1)
                  ELSE PyStr(split[1])
        coefficient == Float(check0)
        exponent == Int_(split[2])
    IN  IF single.kind = "return" THEN Pair(single.val, 0)
        ELSE IF Len(split) # 2
             THEN (IF \A i \in 1..Len(term) : term[i] # "^"
                   THEN TermWithoutPower(term) ELSE Invalid)
        ELSE IF coefficient.kind = "raise" \/ exponent.kind = "raise" THEN Invalid
        ELSE Pair(coefficient.val, exponent.val.val)

\* string after the prefixing of "0" and the four replacements
Normalised(string) ==
    LET prefixed == IF StartsWith(string, <<"-">>) THEN <<"0">> \o string ELSE string
    IN  Replace(Replace(Replace(Replace(prefixed, <<" ">>, <<>>),
                                <<"+", "-">>, <<"_">>),
                        <<"-">>, <<"+", "-">>),
                <<"_">>, <<"+", "-">>)

\* The dict coefficients after the terms: a function from the exponents seen to
\* their coefficients.  coefficients.get(e) is falsy for a missing e and for 0.
Get(coefficients, e) == e \in DOMAIN coefficients /\ ~NumIsZero(coefficients[e])

Put(coefficients, e, c) ==
    [k \in DOMAIN coefficients \cup {e} |-> IF k = e THEN c ELSE coefficients[k]]

\* The loop over the terms: the dict, or the exception of the first invalid term.
RECURSIVE TermsLoop(_, _, _)
TermsLoop(terms, var, coefficients) ==
    IF terms = <<>> THEN Return(coefficients)
    ELSE LET term == Head(terms)
             pair == _is_valid_term(term, var)
         IN  IF ~pair.valid THEN PolynomialParseError(term)
             ELSE IF Get(coefficients, pair.exponent)
                  THEN TermsLoop(Tail(terms), var,
                                 Put(coefficients, pair.exponent,
                                     NumAdd(coefficients[pair.exponent], pair.coefficient)))
             ELSE TermsLoop(Tail(terms), var,
                            Put(coefficients, pair.exponent, pair.coefficient))

Max(S) == CHOOSE m \in S : \A k \in S : k <= m

from_string(string, var) ==
    LET terms == Split(Normalised(string), <<"+">>)
        coefficients == TermsLoop(terms, var, <<>>)
    IN  IF coefficients.kind = "raise" THEN coefficients
        ELSE LET highest == Max(DOMAIN coefficients.val)
             IN  __init__([i \in 1..(highest + 1) |->
                              IF Get(coefficients.val, i - 1) THEN coefficients.val[i - 1]
                              ELSE PyInt(0)],
                          var)


(***************************************************************************)
(* The inputs of the model.                                                *)
(***************************************************************************)
\* The longest argument list of a constructor call.
MaxArgs == 2
\* The largest magnitude of an integer coefficient or scalar given as input.
MaxCoef == 1
\* The largest exponent given to **.
MaxPow == 2
\* The most roots given to from_roots.
MaxRoots == 2

PyBool(b) == [type |-> "bool", val |-> b]

Vars == {DefaultVar, <<"y">>}

Ints == {PyInt(c) : c \in -MaxCoef..MaxCoef}

Half == NumTrueDiv(PyInt(1), PyInt(2))

\* the float scalars 0.5 and 2.0
Floats == {Half, ToFloat(PyInt(2))}

\* operands that are neither a scalar nor a Polynomial: "a", None, []
Invalids == {PyStr(<<"a">>), PyNone, PyList(<<>>)}

ArgLists(n) == UNION {[1..k -> Ints] : k \in 0..n}

\* The Polynomial operands: at most two coefficients, variable "t".
Operands == {__init__(args, <<"t">>).val : args \in ArgLists(2)}

\* The argument lists of the documented examples: Polynomial(1, 0, 0) and
\* Polynomial(2, -3, 1).
Examples == { <<PyInt(1), PyInt(0), PyInt(0)>>, <<PyInt(2), PyInt(-3), PyInt(1)>> }

\* Argument lists with a coefficient that is no number.
BadArgLists == {<<PyStr(<<"a">>)>>, <<PyInt(1), PyNone>>}

\* The strings given to from_string in the algebra.
Strings == { <<"x", "^", "2", " ", "-", " ", "3", "x", " ", "+", " ", "2">>,
             <<"-", "x", "^", "3", "+", "2", "x", "-", "1">>,
             <<"0", "x", "^", "2">>,
             <<"x", "^", "2", "-", "x", "^", "2">>,
             <<"x", "^", "^", "2">> }

(***************************************************************************)
(* The state: a client's variable P holding a Polynomial, the last call    *)
(* and what it returned or raised.                                         *)
(***************************************************************************)
VARIABLES P, call, ret

vars == <<P, call, ret>>

Call(op, args) == [op |-> op, args |-> args]

Returned(r) == r.kind = "return"

\* No call is under way: the client is between two statements.
Idle == Call("", <<>>)

\* The client evaluates a call on P: the call returns or raises.
Apply(op, args, result) ==
    /\ call = Idle
    /\ call' = Call(op, args)
    /\ ret' = result
    /\ UNCHANGED P

\* The client evaluates P = <a constructor call>: P is bound to the Polynomial
\* the call returns, and is left as it is when the call raises.
Bind(op, args, result) ==
    /\ call = Idle
    /\ call' = Call(op, args)
    /\ ret' = result
    /\ P' = IF Returned(result) THEN result.val ELSE P

Init ==
    /\ P = __init__(<<PyInt(0)>>, DefaultVar).val
    /\ call = Idle
    /\ ret = Return(PyNone)

\* P = Polynomial(*args, var=var)
Construct(args, var) ==
    Bind("__init__", <<PyTuple(args), PyStr(var)>>, __init__(args, var))

\* P = Polynomial.from_roots(*roots, var=var)
FromRoots(roots, var) ==
    Bind("from_roots", <<PyTuple(roots), PyStr(var)>>, from_roots(roots, var))

\* P = Polynomial.from_string(string, var)
FromString(string, var) ==
    Bind("from_string", <<PyStr(string), PyStr(var)>>, from_string(string, var))

\* P.var = new
SetVar(new) ==
    /\ call = Idle
    /\ call' = Call("var", <<new>>)
    /\ ret' = IF new.type # "str"
              THEN Raise("TypeError", <<"Polynomial variable must be a string">>)
              ELSE Return(PyNone)
    /\ P' = IF new.type # "str" THEN P ELSE [P EXCEPT !.var = new.val]

Eq(other) == Apply("__eq__", <<other>>, Return(PyBool(__eq__(P, other))))
Add(other) == Apply("__add__", <<other>>, __add__(P, other))
\* other + P for an other that is no Polynomial
RAdd(other) == Apply("__radd__", <<other>>, __radd__(P, other))
Sub(other) == Apply("__sub__", <<other>>, __sub__(P, other))
Neg == Apply("__neg__", <<>>, __neg__(P))
Mul(other) == Apply("__mul__", <<other>>, __mul__(P, other))
\* other * P for an other that is no Polynomial
RMul(other) == Apply("__rmul__", <<other>>, __rmul__(P, other))
TrueDiv(other) == Apply("__truediv__", <<other>>, __truediv__(P, other))
Pow(n) == Apply("__pow__", <<n>>, __pow__(P, n))
Copy == Apply("copy", <<>>, copy(P))
Derivative == Apply("derivative", <<>>, derivative(P))
Integral(constant) == Apply("integral", <<constant>>, integral(P, constant))
Compose(other) == Apply("compose", <<other>>, compose(P, other))

\* A Polynomial the client keeps: one whose coefficients are ints within the
\* bounds of the inputs.
Small(p) ==
    /\ __len__(p) <= MaxArgs
    /\ \A i \in 1..__len__(p) : p.coefficients.val[i].type = "int"
    /\ \A i \in 1..__len__(p) : p.coefficients.val[i].val \in -MaxCoef..MaxCoef

\* P = <the Polynomial the call returned>
Rebind ==
    /\ call # Idle
    /\ Returned(ret)
    /\ IsPolynomial(ret.val)
    /\ Small(ret.val)
    /\ P' = ret.val
    /\ call' = Idle
    /\ ret' = Return(PyNone)

\* The statement ends and the value of the call, or its exception, is dropped.
Discard ==
    /\ call # Idle
    /\ call' = Idle
    /\ ret' = Return(PyNone)
    /\ UNCHANGED P

\* The exponents: the ints -1 .. MaxPow.
Exponents == {PyInt(n) : n \in -1..MaxPow}

\* The action Op(other) for an int or float scalar other.
ForScalar(Op(_)) ==
    \/ \E other \in Ints : Op(other)
    \/ \E other \in Floats : Op(other)

\* The action Op(other) for an other that is no scalar and no Polynomial.
ForInvalid(Op(_)) == \E other \in Invalids : Op(other)

\* The action Op(other) for a Polynomial other.
ForPolynomial(Op(_)) == \E other \in Operands : Op(other)

Next ==
    \/ \E args \in ArgLists(MaxArgs) \cup Examples, var \in Vars : Construct(args, var)
    \/ \E args \in BadArgLists : Construct(args, DefaultVar)
    \/ \E roots \in ArgLists(MaxRoots), var \in Vars : FromRoots(roots, var)
    \/ \E string \in Strings, var \in Vars : FromString(string, var)
    \/ \E new \in {PyStr(v) : v \in Vars} \cup {PyNone} : SetVar(new)
    \/ ForScalar(Eq) \/ ForPolynomial(Eq) \/ ForInvalid(Eq)
    \/ ForScalar(Add) \/ ForPolynomial(Add) \/ ForInvalid(Add)
    \/ ForScalar(RAdd) \/ ForInvalid(RAdd)
    \/ ForScalar(Sub) \/ ForPolynomial(Sub) \/ ForInvalid(Sub)
    \/ Neg
    \/ ForScalar(Mul) \/ ForPolynomial(Mul) \/ ForInvalid(Mul)
    \/ ForScalar(RMul) \/ ForInvalid(RMul)
    \/ ForScalar(TrueDiv) \/ ForPolynomial(TrueDiv) \/ ForInvalid(TrueDiv)
    \/ \E n \in Exponents : Pow(n)
    \/ \E n \in Floats : Pow(n)
    \/ ForInvalid(Pow)
    \/ Copy
    \/ Derivative
    \/ ForScalar(Integral) \/ ForInvalid(Integral)
    \/ ForScalar(Compose) \/ ForPolynomial(Compose) \/ ForInvalid(Compose)
    \/ Rebind
    \/ Discard

Spec == Init /\ [][Next]_vars

(***************************************************************************)
(* Properties of the algebra, checked under Spec.  In a state where a call *)
(* stands (call # Idle), ret is what the call returned or raised; for a    *)
(* call on P, P is its receiver.                                           *)
(***************************************************************************)
IsTrue(r) == Returned(r) /\ r.val.type = "bool" /\ r.val.val = TRUE

ReturnedPolynomial(r) == Returned(r) /\ IsPolynomial(r.val)

Raised(r, exc) == r.kind = "raise" /\ r.exc = exc

\* The canonical form: a non-empty coefficient sequence whose last coefficient
\* is nonzero, unless the sequence is the single element 0.
Canonical(p) ==
    /\ __len__(p) >= 1
    /\ __len__(p) = 1 \/ ~EqualsZero(p.coefficients.val[__len__(p)])

\* C1: every Polynomial that exists after any sequence of constructions and
\* operations (the one bound to P, and the one the last call returned) has a
\* non-empty coefficient sequence whose highest-degree coefficient is nonzero,
\* unless the sequence is the single element 0; Polynomial(1, 0, 0) has the
\* coefficients (1,) and degree 0.
C1_CanonicalForm ==
    /\ Canonical(P)
    /\ ReturnedPolynomial(ret) => Canonical(ret.val)
    /\ (/\ call.op = "__init__"
        /\ Len(call.args[1].val) = 3
        /\ \A i \in 1..3 : call.args[1].val[i].type = "int"
        /\ call.args[1].val[1].val = 1
        /\ call.args[1].val[2].val = 0
        /\ call.args[1].val[3].val = 0)
       => /\ ReturnedPolynomial(ret)
          /\ __len__(ret.val) = 1
          /\ NumEq(ret.val.coefficients.val[1], PyInt(1))
          /\ degree(ret.val) = 0

\* Polynomial(1, 0, 0) was constructed: its trailing zeros were stripped.
C1_Witness ==
    /\ call.op = "__init__"
    /\ Len(call.args[1].val) = 3
    /\ \A i \in 1..3 : call.args[1].val[i].type = "int"
    /\ call.args[1].val[1].val = 1
    /\ call.args[1].val[2].val = 0
    /\ call.args[1].val[3].val = 0
    /\ ReturnedPolynomial(ret)
    /\ __len__(ret.val) = 1
    /\ P = ret.val

\* C2: for every Polynomial P and every real scalar s, P == s is true if and
\* only if P has degree 0 and its sole coefficient equals s.
C2_ScalarEquality ==
    (call.op = "__eq__" /\ _is_numeric(call.args[1]))
    => (IsTrue(ret) <=> (degree(P) = 0 /\ NumEq(P.coefficients.val[1], call.args[1])))

\* The operands that are neither a real scalar nor a Polynomial.
NoOperand(v) == ~_is_numeric(v) /\ ~IsPolynomial(v)

\* The failure of the taxonomy that names the operation and the operand's type.
IsPolynomialTypeError(r, operation, operand) ==
    /\ Raised(r, "PolynomialTypeError")
    /\ r.args = <<operation, operand.type>>

\* C4: for every Polynomial P and every operand v that is neither a real scalar
\* nor a Polynomial, P + v, v + P, P - v, P * v, v * P, P / v and P.compose(v)
\* fail with PolynomialTypeError naming the operation and the operand's type;
\* P / Q for a Polynomial Q and P.compose(s) for a scalar s fail with that
\* same kind of error.
C4_TypeErrors ==
    /\ (call.op \in {"__add__", "__radd__"} /\ NoOperand(call.args[1]))
       => IsPolynomialTypeError(ret, "add", call.args[1])
    /\ (call.op = "__sub__" /\ NoOperand(call.args[1]))
       => /\ Raised(ret, "PolynomialTypeError")
          /\ ret.args[2] = call.args[1].type
    /\ (call.op \in {"__mul__", "__rmul__"} /\ NoOperand(call.args[1]))
       => IsPolynomialTypeError(ret, "multiply", call.args[1])
    /\ (call.op = "__truediv__" /\ ~_is_numeric(call.args[1]))
       => IsPolynomialTypeError(ret, "divide", call.args[1])
    /\ (call.op = "compose" /\ ~IsPolynomial(call.args[1]))
       => IsPolynomialTypeError(ret, "compose", call.args[1])

\* The element-wise sum of the coefficient sequences a and b, the shorter one
\* padded with zeros, normalized as a construction normalizes.
PaddedSum(a, b) ==
    LET At(seq, i) == IF i <= Len(seq) THEN seq[i] ELSE PyInt(0)
        n == IF Len(a) >= Len(b) THEN Len(a) ELSE Len(b)
    IN  _strip_leading_zeros([i \in 1..n |-> NumAdd(At(a, i), At(b, i))])

\* C6: for every Polynomial P, P + 0 == P and 0 + P == P; for all Polynomials
\* P and Q, P + Q succeeds, equals the element-wise sum of the zero-padded
\* coefficient sequences re-normalized, and P + Q == Q + P.
C6_Addition ==
    /\ (/\ call.op \in {"__add__", "__radd__"}
        /\ call.args[1].type = "int"
        /\ call.args[1].val = 0)
       => ReturnedPolynomial(ret) /\ __eq__(ret.val, P)
    /\ (call.op = "__add__" /\ IsPolynomial(call.args[1]))
       => /\ ReturnedPolynomial(ret)
          /\ TupleEq(ret.val.coefficients.val,
                     PaddedSum(P.coefficients.val, call.args[1].coefficients.val))
          /\ ReturnedPolynomial(__add__(call.args[1], P))
          /\ __eq__(ret.val, __add__(call.args[1], P).val)

\* the product of n copies of self, accumulated from Polynomial(1)
RECURSIVE ProductOfCopies(_, _)
ProductOfCopies(self, n) ==
    IF n = 0 THEN __init__(<<PyInt(1)>>, DefaultVar)
    ELSE LET product == ProductOfCopies(self, n - 1)
         IN  IF product.kind = "raise" THEN product ELSE __mul__(product.val, self)

\* C9: for every Polynomial P and every integer n >= 0, P ** n succeeds and
\* equals the product of n copies of P accumulated from Polynomial(1), so that
\* P ** 0 == Polynomial(1); for n < 0 and for an n that is no integer, P ** n
\* fails with PolynomialDomainError and returns no Polynomial.
C9_Exponentiation ==
    call.op = "__pow__"
    => IF call.args[1].type = "int" /\ call.args[1].val >= 0
       THEN /\ ReturnedPolynomial(ret)
            /\ ReturnedPolynomial(ProductOfCopies(P, call.args[1].val))
            /\ __eq__(ret.val, ProductOfCopies(P, call.args[1].val).val)
            /\ call.args[1].val = 0 => __eq__(ret.val, __init__(<<PyInt(1)>>, DefaultVar).val)
       ELSE Raised(ret, "PolynomialDomainError")

\* A polynomial of degree 1 was raised to the largest power.
C9_Witness ==
    /\ call.op = "__pow__"
    /\ call.args[1].type = "int"
    /\ call.args[1].val = MaxPow
    /\ degree(P) = 1
    /\ ReturnedPolynomial(ret)
    /\ degree(ret.val) = MaxPow

\* The operations of the claim about the variable name, P being the receiver.
ReceiverOps ==
    {"__add__", "__sub__", "__neg__", "__mul__", "__truediv__", "__pow__",
     "copy", "derivative", "integral", "compose"}

\* C10: for every Polynomial P whose variable name is v, the Polynomial that an
\* operation with P as receiver returns has the variable name v, and the
\* operation leaves P's own variable name and coefficients unchanged.
C10_VariableName ==
    [][(call = Idle /\ call'.op \in ReceiverOps)
       => /\ P' = P
          /\ ReturnedPolynomial(ret') => ret'.val.var = P.var]_vars

(***************************************************************************)
(* The parser and the printer: strings over a small alphabet are given to  *)
(* from_string, and the rendering of P is parsed back.                     *)
(***************************************************************************)
\* The longest string given to from_string.
MaxStrLen == 3

Alphabet == {"1", "2", "x", "y", "^", "-", "+"}

AllStrings == UNION {[1..n -> Alphabet] : n \in 0..MaxStrLen}

\* Polynomial.from_string(string, var), the value not assigned
Parse(string, var) ==
    Apply("from_string", <<PyStr(string), PyStr(var)>>, from_string(string, var))

\* Polynomial.from_string(str(P))
RoundTrip ==
    Apply("from_string(str(P))", <<PyStr(__str__(P))>>, from_string(__str__(P), DefaultVar))

ParseNext ==
    \/ \E args \in ArgLists(MaxArgs) \cup Examples, var \in Vars : Construct(args, var)
    \/ \E string \in AllStrings \cup Strings, var \in Vars : Parse(string, var)
    \/ RoundTrip
    \/ Discard

SpecParse == Init /\ [][ParseNext]_vars

IntegerCoefficients(p) == \A i \in 1..__len__(p) : p.coefficients.val[i].type = "int"

\* C3: for every Polynomial P with integer coefficients and the default
\* variable name, Polynomial.from_string(str(P)) succeeds and equals P, also
\* when the rendering has a term with an omitted coefficient of magnitude 1.
C3_RoundTrip ==
    (call.op = "from_string(str(P))" /\ IntegerCoefficients(P) /\ P.var = DefaultVar)
    => ReturnedPolynomial(ret) /\ __eq__(ret.val, P)

\* A real number over Alphabet: an optional minus sign and at least one digit.
IsNumber(s) ==
    LET body == IF s # <<>> /\ s[1] = "-" THEN Tail(s) ELSE s
    IN  body # <<>> /\ \A i \in 1..Len(body) : IsDigit(body[i])

\* A coefficient in front of the variable: a real number, nothing, or a sign.
IsCoefficient(s) == s = <<>> \/ s = <<"-">> \/ IsNumber(s)

\* The shapes of a term: a real number, <coeff>var^<integer exponent>, <coeff>var.
WellFormed(term, var) ==
    \/ IsNumber(term)
    \/ \E k \in 0..Len(term) :
          /\ IsCoefficient(SubSeq(term, 1, k))
          /\ LET rest == SubSeq(term, k + 1, Len(term))
             IN  \/ rest = var
                 \/ /\ StartsWith(rest, var \o <<"^">>)
                    /\ IsNumber(SubSeq(rest, Len(var) + 2, Len(rest)))

\* The signed terms of a string: after the removal of whitespace and the
\* folding of the signs, the pieces between the "+".
SignedTerms(string) == Split(Normalised(string), <<"+">>)

\* C5: Polynomial.from_string(s, var) fails with PolynomialParseError carrying
\* the offending term whenever at least one of the signed terms of s is not of
\* the shape real number, <coeff>var^<integer exponent> or <coeff>var for the
\* configured variable name; no Polynomial is returned then.
C5_ParseRejection ==
    (/\ call.op = "from_string"
     /\ \E i \in 1..Len(SignedTerms(call.args[1].val)) :
           ~WellFormed(SignedTerms(call.args[1].val)[i], call.args[2].val))
    => /\ Raised(ret, "PolynomialParseError")
       /\ \E i \in 1..Len(SignedTerms(call.args[1].val)) :
             /\ ~WellFormed(SignedTerms(call.args[1].val)[i], call.args[2].val)
             /\ ret.args = <<SignedTerms(call.args[1].val)[i]>>

(***************************************************************************)
(* The ring laws: the client evaluates P * (Q + R) == P*Q + P*R.  The      *)
(* exception of a step ends the evaluation: it is what the expression      *)
(* raises.                                                                 *)
(***************************************************************************)
\* P * (Q + R) == P*Q + P*R, evaluated left to right
Distributes(self, Q, R) ==
    LET sum == __add__(Q, R)
        left == __mul__(self, sum.val)
        PQ == __mul__(self, Q)
        PR == __mul__(self, R)
        right == __add__(PQ.val, PR.val)
    IN  IF sum.kind = "raise" THEN sum
        ELSE IF left.kind = "raise" THEN left
        ELSE IF PQ.kind = "raise" THEN PQ
        ELSE IF PR.kind = "raise" THEN PR
        ELSE IF right.kind = "raise" THEN right
        ELSE Return(PyBool(__eq__(left.val, right.val)))

Distribute(Q, R) == Apply("P * (Q + R) == P*Q + P*R", <<Q, R>>, Distributes(P, Q, R))

RingNext ==
    \/ \E args \in ArgLists(MaxArgs) \cup Examples, var \in Vars : Construct(args, var)
    \/ \E Q \in Operands, R \in Operands : Distribute(Q, R)
    \/ Discard

SpecRing == Init /\ [][RingNext]_vars

\* C7: for all Polynomials P, Q, R with bounded integer coefficients,
\* P * (Q + R) == P*Q + P*R.
C7_Distributivity ==
    call.op = "P * (Q + R) == P*Q + P*R" => IsTrue(ret)

(***************************************************************************)
(* The calculus: the client evaluates P.integral(c).derivative() == P for  *)
(* the polynomials of the algebra and for the monomials c x^d.             *)
(***************************************************************************)
\* The largest degree of a monomial.
MaxDegree == 6
\* The largest magnitude of the coefficient of a monomial.
MaxScale == 29

\* The argument list of c x^d: d zeros and c.
Monomial(c, d) == [i \in 1..(d + 1) |-> IF i = d + 1 THEN PyInt(c) ELSE PyInt(0)]

Monomials == {Monomial(c, d) : c \in -MaxScale..MaxScale, d \in 0..MaxDegree}

\* P.integral(constant).derivative() == P
DerivativeOfIntegral(self, constant) ==
    LET integrated == integral(self, constant)
        differentiated == derivative(integrated.val)
    IN  IF integrated.kind = "raise" THEN integrated
        ELSE IF differentiated.kind = "raise" THEN differentiated
        ELSE Return(PyBool(__eq__(differentiated.val, self)))

IntegrateDifferentiate(constant) ==
    Apply("P.integral(c).derivative() == P", <<constant>>, DerivativeOfIntegral(P, constant))

CalculusNext ==
    \/ \E args \in ArgLists(MaxArgs) \cup Examples \cup Monomials, var \in Vars :
          Construct(args, var)
    \/ ForScalar(IntegrateDifferentiate)
    \/ Discard

SpecCalculus == Init /\ [][CalculusNext]_vars

=============================================================================
